---- MODULE Spec2Model ----
(***************************************************************************)
(* The preference ranking engine of the colour picker (EloPickerState and  *)
(* the Elo update rule of the picker core), as a state machine.            *)
(*                                                                         *)
(* Numbers.  JavaScript ratings are doubles.  Here a rating is an integer  *)
(* count of 1/Unit rating points and an expected score an integer count of *)
(* 1/ScoreScale, read from a table of the logistic curve sampled every     *)
(* TableStep rating points and interpolated linearly.                      *)
(*                                                                         *)
(* References.  eliminated, favorites and evaluating hold references to    *)
(* the objects of this.colors; here they hold positions (1..Len(colors))   *)
(* of the colors array.  Ids are integers: color_<i> is the id i.          *)
(***************************************************************************)
EXTENDS Integers, Sequences, FiniteSets, TLC

\* the fields of the session object (itemsAliased: this.colors is the array
\* options.items itself), and the history of the run: the last call and its
\* argument, how the session was entered, the decisions made so far.
\* passed and taken are snapshot objects the caller has kept: one it handed
\* to restoreState() and one that getState() returned, as the caller reads
\* them now.
VARIABLES options, maxComparisons, analytics, colors, eliminated, favorites,
          evaluating, settings, sessionComplete, itemsAliased,
          lastOp, started, decisions, passed, taken

\* the page around the session: the consistency tracker (its userId and
\* sessions fields), the browser's localStorage, and the last result of
\* calculateConsistency()
VARIABLES userId, sessions, localStorage, consistency

\* the start of the user-identity UI: the time since page ready in ms,
\* whether window.consistencyTracker is set, the state of
\* initializeEnhancedFeatures() ("pending", "done", "failed") and the time its
\* timer is due, whether the checkInterval timer is active and when its next callback is due, whether
\* the 5 s timeout is still to fire, the number of runs of
\* initializeUserIdentityUI(), and whether 'Error: Not initialized' is shown
VARIABLES now, windowTracker, enhanced, enhancedDue, polling, nextPoll,
          timeoutPending, identityUI, errorText

pollVars == <<now, windowTracker, enhanced, enhancedDue, polling, nextPoll,
              timeoutPending, identityUI, errorText>>

pageVars == <<userId, sessions, localStorage, consistency, pollVars>>

vars == <<options, maxComparisons, analytics, colors, eliminated, favorites,
          evaluating, settings, sessionComplete, itemsAliased,
          lastOp, started, decisions, passed, taken, pageVars>>

-----------------------------------------------------------------------------
(* Bounds of the model *)

\* the number of pick() and pass() calls a run makes on a batch
MaxDecisions == 2

\* the largest size the batch selector is called with on its own
MaxSize == 3

\* the largest count getTopColors() is called with
MaxTop == 4

\* the number of starting hues a pool is built with, and their distance in
\* millionths of a turn
PoolSeedCount == 20
PoolSeedStep == 50000

-----------------------------------------------------------------------------
(* Program constants *)

InitialRating == 1500
DefaultColorCount == 200
DefaultMaxComparisons == 20
DefaultBatchSize == 10
BatchCap == 10
ElimMinRounds == 10
ElimMinComparisons == 8
ElimMargin == 200
ThresholdFallback == 1500
FavMinRounds == 20
FavMinComparisons == 10
FavMargin == 100
FavForceRounds == 25
SecondBestFallback == 1500
KFloor == 32
KBase == 64
HueGroupCount == 12
HueGroupWidth == 30
GroupTop == 3
MaxSkip == 3

\* fixed-point resolution of a rating, of an expected score, of the table
Unit == 1000
ScoreScale == 10000
TableStep == 50
\* the golden ratio conjugate and one full turn, in millionths of a turn
GoldenRatioConjugate == 618034
HueTurn == 1000000

-----------------------------------------------------------------------------
(* Values *)

\* this.evaluating = null.  No position is 0, so no batch equals NULL; the
\* empty array <<>> is a batch, and is truthy in JavaScript.
NULL == <<0>>
\* an id list or a settings object that is undefined
ABSENT == <<-1>>
Undefined == [defined |-> FALSE, batchSize |-> 0]
SettingsOf(b) == [defined |-> TRUE, batchSize |-> b]
\* an id no pool uses
ForeignId == 99

Min(a, b) == IF a <= b THEN a ELSE b
Max(a, b) == IF a >= b THEN a ELSE b
Range(s) == {s[i] : i \in DOMAIN s}
Includes(s, x) == \E i \in DOMAIN s : s[i] = x
\* a / b rounded to the nearest integer, halves away from zero (b > 0)
RoundDiv(a, b) == IF a >= 0 THEN (2 * a + b) \div (2 * b)
                  ELSE -((2 * (-a) + b) \div (2 * b))

RECURSIVE SetToSeq(_)
\* the elements of a set of integers in increasing order
SetToSeq(S) == IF S = {} THEN <<>>
               ELSE LET m == CHOOSE x \in S : \A y \in S : x <= y
                    IN <<m>> \o SetToSeq(S \ {m})

-----------------------------------------------------------------------------
(* Item generator *)

NewItem(id, h) == [id |-> id, h |-> h, eloRating |-> InitialRating * Unit,
                   comparisons |-> 0, wins |-> 0, losses |-> 0]

\* seed: Math.random() of line 26, in millionths
generatePerceptuallyDistinctColors(count, seed) ==
    [i \in 1..count |->
        NewItem(i - 1, (((seed + i * GoldenRatioConjugate) % HueTurn) * 360) \div HueTurn)]

-----------------------------------------------------------------------------
(* Elo rating system *)

\* 10000 / (1 + 10^(-d/400)) for d = 0, 50, ..., 1000
ExpectedTable == <<5000, 5715, 6401, 7034, 7597, 8083, 8490, 8823, 9091, 9302,
                   9468, 9595, 9693, 9768, 9825, 9868, 9901, 9926, 9944, 9958, 9968>>

\* expected score of the side that is d >= 0 ahead
ExpectedAhead(d) ==
    LET step == TableStep * Unit
        i    == d \div step
        r    == d % step
    IN  IF i + 1 >= Len(ExpectedTable) THEN ExpectedTable[Len(ExpectedTable)]
        ELSE ExpectedTable[i + 1]
             + ((ExpectedTable[i + 2] - ExpectedTable[i + 1]) * r) \div step

calculateExpectedScore(ratingA, ratingB) ==
    IF ratingA >= ratingB THEN ExpectedAhead(ratingA - ratingB)
    ELSE ScoreScale - ExpectedAhead(ratingB - ratingA)

kFactor(winner) == Max(KFloor, KBase - winner.comparisons * 2)
\* a variant: the loser's step size from the loser's own count
ownKFactor(winner, loser) == kFactor(loser)

\* the step size that moves the loser's rating: the kFactor of line 159 again
loserKFactor(winner, loser) == kFactor(winner)

\* kFactor * (score - expected), score in halves (2 = 1, 1 = 0.5, 0 = 0)
RatingDelta(k, twiceScore, expected) ==
    RoundDiv(k * ((twiceScore * ScoreScale) \div 2 - expected) * Unit, ScoreScale)

\* a variant: wins and losses are counted, comparisons are not
updateWithoutCount(cs, w, l, isDraw) ==
    IF isDraw THEN cs ELSE [cs EXCEPT ![w].wins = @ + 1, ![l].losses = @ + 1]

\* cs: the colors array; w, l: positions of winner and loser.  The
\* assignments run in the order of the code, so w = l is the same object.
updateEloRatings(cs, w, l, isDraw) ==
    LET kw == kFactor(cs[w])
        kl == loserKFactor(cs[w], cs[l])
        expectedWin  == calculateExpectedScore(cs[w].eloRating, cs[l].eloRating)
        expectedLose == calculateExpectedScore(cs[l].eloRating, cs[w].eloRating)
        sw == IF isDraw THEN 1 ELSE 2
        sl == IF isDraw THEN 1 ELSE 0
        c1 == [cs EXCEPT ![w].eloRating = @ + RatingDelta(kw, sw, expectedWin)]
        c2 == [c1 EXCEPT ![l].eloRating = @ + RatingDelta(kl, sl, expectedLose)]
        c3 == IF isDraw THEN c2 ELSE [c2 EXCEPT ![w].wins = @ + 1]
        c4 == IF isDraw THEN c3 ELSE [c3 EXCEPT ![l].losses = @ + 1]
        c5 == [c4 EXCEPT ![w].comparisons = @ + 1]
    IN  [c5 EXCEPT ![l].comparisons = @ + 1]

RECURSIVE ApplyPairs(_, _, _)
\* updateEloRatings over a sequence of <<winner, loser>> pairs, in order
ApplyPairs(cs, pairs, isDraw) ==
    IF cs = <<>> \/ pairs = <<>> THEN cs
    ELSE ApplyPairs(updateEloRatings(cs, pairs[1][1], pairs[1][2], isDraw),
                    Tail(pairs), isDraw)

\* winners.forEach(winner => losers.forEach(loser => ...))
WinLossPairs(winners, losers) ==
    [k \in 1..(Len(winners) * Len(losers)) |->
        <<winners[((k - 1) \div Len(losers)) + 1], losers[((k - 1) % Len(losers)) + 1]>>]

\* a variant: every item is paired with the next one only
AdjacentPairs(s) == [j \in 1..(Len(s) - 1) |-> <<s[j], s[j + 1]>>]

RECURSIVE DrawPairs(_)
\* for i, for j = i + 1: every pair of s once, in loop order
DrawPairs(s) ==
    IF Len(s) <= 1 THEN <<>>
    ELSE [j \in 1..(Len(s) - 1) |-> <<s[1], s[j + 1]>>] \o DrawPairs(Tail(s))

-----------------------------------------------------------------------------
(* Sorting: Array.prototype.sort is stable *)

\* sorted: by descending rating; x goes after every item rated >= x
InsertByRating(cs, sorted, x) ==
    LET k == Cardinality({i \in DOMAIN sorted : cs[sorted[i]].eloRating >= cs[x].eloRating})
    IN  SubSeq(sorted, 1, k) \o <<x>> \o SubSeq(sorted, k + 1, Len(sorted))

RECURSIVE SortByRating(_, _)
\* [...s].sort((a, b) => b.eloRating - a.eloRating)
SortByRating(cs, s) ==
    IF s = <<>> THEN <<>>
    ELSE InsertByRating(cs, SortByRating(cs, SubSeq(s, 1, Len(s) - 1)), s[Len(s)])

InsertByHue(cs, sorted, x) ==
    LET k == Cardinality({i \in DOMAIN sorted : cs[sorted[i]].h <= cs[x].h})
    IN  SubSeq(sorted, 1, k) \o <<x>> \o SubSeq(sorted, k + 1, Len(sorted))

RECURSIVE SortByHue(_, _)
\* batch.sort((a, b) => a.hsl.h - b.hsl.h)
SortByHue(cs, s) ==
    IF s = <<>> THEN <<>>
    ELSE InsertByHue(cs, SortByHue(cs, SubSeq(s, 1, Len(s) - 1)), s[Len(s)])

-----------------------------------------------------------------------------
(* Batch selector *)

getHueGroup(hue) == (hue \div HueGroupWidth) % HueGroupCount

\* groups[g]: the items of hue group g, highest rated first
groupByHue(cs, items) ==
    [g \in 0..(HueGroupCount - 1) |->
        SortByRating(cs, SelectSeq(items, LAMBDA x : getHueGroup(cs[x].h) = g))]

RECURSIVE HighRatedLoop(_, _, _, _)
\* the loop of lines 349-356 from (1-based) position i on: each item is
\* taken or not (Math.random() < 0.7) until highRatedCount are taken
HighRatedLoop(sorted, i, highRatedCount, batch) ==
    IF i > Len(sorted) \/ Len(batch) >= highRatedCount THEN {batch}
    ELSE HighRatedLoop(sorted, i + 1, highRatedCount, Append(batch, sorted[i]))
         \cup HighRatedLoop(sorted, i + 1, highRatedCount, batch)

\* every batch the first loop can leave: startIndex is 0 or 1..3,
\* highRatedCount 2 or 3
HighRatedPhase(cs, available) ==
    LET sortedByRating == SortByRating(cs, available)
    IN  UNION {HighRatedLoop(sortedByRating, startIndex + 1, highRatedCount, <<>>) :
                  startIndex \in 0..MaxSkip, highRatedCount \in 2..3}

RECURSIVE GroupPicks(_, _)
\* one of the first three items of each group of gs
GroupPicks(groups, gs) ==
    IF gs = <<>> THEN {<<>>}
    ELSE {<<groups[gs[1]][k]>> \o rest :
             k \in 1..Min(GroupTop, Len(groups[gs[1]])),
             rest \in GroupPicks(groups, Tail(gs))}

RECURSIVE KSubsets(_, _)
\* the subsets of S with k elements
KSubsets(S, k) ==
    IF k = 0 THEN {{}}
    ELSE IF Cardinality(S) < k THEN {}
    ELSE LET x == CHOOSE y \in S : TRUE
         IN  {T \cup {x} : T \in KSubsets(S \ {x}, k - 1)} \cup KSubsets(S \ {x}, k)

\* the loop of lines 361-378 over the shuffled group keys.  Empty and used
\* groups are passed over, so the shuffle decides only which unused groups
\* come before the batch is full; each adds one item of another hue, whose
\* place after the final sort does not depend on the order of arrival.
GroupPhase(cs, hueGroups, size, batch) ==
    LET usedGroups == {getHueGroup(cs[batch[i]].h) : i \in DOMAIN batch}
        eligible   == {g \in 0..(HueGroupCount - 1) :
                          hueGroups[g] # <<>> /\ g \notin usedGroups}
        take       == Min(size - Len(batch), Cardinality(eligible))
    IN  IF Len(batch) >= size THEN {batch}
        ELSE UNION {{batch \o p : p \in GroupPicks(hueGroups, SetToSeq(G))} :
                       G \in KSubsets(eligible, take)}

InsertAt(s, k, x) == SubSeq(s, 1, k) \o <<x>> \o SubSeq(s, k + 1, Len(s))

RECURSIVE FillOrders(_, _, _, _)
\* sorted: a batch sorted by hue; done: the fill items already in it; fill:
\* the fill items to come, which arrive in any order.  The stable sort puts
\* an item after the items of lower hue and after the items of its own hue
\* that came before it.
FillOrders(cs, sorted, done, fill) ==
    IF fill = {} THEN {sorted}
    ELSE LET x    == CHOOSE y \in fill : \A z \in fill : y <= z
             lo   == Cardinality({i \in DOMAIN sorted :
                         \/ cs[sorted[i]].h < cs[x].h
                         \/ cs[sorted[i]].h = cs[x].h /\ sorted[i] \notin done})
             ties == Cardinality({y \in done : cs[y].h = cs[x].h})
         IN  UNION {FillOrders(cs, InsertAt(sorted, k, x), done \cup {x}, fill \ {x}) :
                       k \in lo..(lo + ties)}

\* lines 381-385: random items not yet in the batch until it is full.  The
\* result: <<the batch so far, the set of items added>>
FillPhase(available, size, batch) ==
    LET remaining == Range(available) \ Range(batch)
        need      == Min(Max(size - Len(batch), 0), Cardinality(remaining))
    IN  {<<batch, F>> : F \in KSubsets(remaining, need)}

\* line 388: the sort by hue of a batch and the fill items after it.  When
\* no two of the items share a hue the order of arrival does not matter.
HueSorted(cs, byHue, batch, fill) ==
    LET all == Range(batch) \cup fill
    IN  IF Cardinality({cs[x].h : x \in all}) = Cardinality(all)
        THEN {SelectSeq(byHue, LAMBDA x : x \in all)}
        ELSE FillOrders(cs, SortByHue(cs, batch), {}, fill)

\* the set of batches selectDiverseBatch(available, size) can return
selectDiverseBatch(cs, available, size) ==
    IF Len(available) <= size THEN {available}
    ELSE LET hueGroups == groupByHue(cs, available)
             byHue     == SortByHue(cs, available)
             grouped   == UNION {GroupPhase(cs, hueGroups, size, b1) :
                                    b1 \in HighRatedPhase(cs, available)}
             filled    == UNION {FillPhase(available, size, b2) : b2 \in grouped}
         IN  UNION {HueSorted(cs, byHue, f[1], f[2]) : f \in filled}

-----------------------------------------------------------------------------
(* Inputs *)

\* Math.random() of the item generator, in millionths
HueSeeds == {400000}

\* hasItems: options.items is given; generateColors: "true", "false", or
\* "undefined" when the flag is not given
GenOptions(count, cap, batch) ==
    [items |-> <<>>, hasItems |-> FALSE, generateColors |-> "true",
     colorCount |-> count, maxComparisons |-> cap, defaultSettings |-> batch]

ItemOptions(items, cap, batch) ==
    [items |-> items, hasItems |-> TRUE, generateColors |-> "false",
     colorCount |-> 0, maxComparisons |-> cap, defaultSettings |-> batch]

\* {items: [...]} and nothing else about the pool
ListOptions(items, cap, batch) ==
    [items |-> items, hasItems |-> TRUE, generateColors |-> "undefined",
     colorCount |-> 0, maxComparisons |-> cap, defaultSettings |-> batch]

\* neither items nor a generateColors that is true
SourcelessOptions(flag, cap) ==
    [items |-> <<>>, hasItems |-> FALSE, generateColors |-> flag,
     colorCount |-> 0, maxComparisons |-> cap, defaultSettings |-> Undefined]

Item(id, h, rating, comparisons, wins, losses) ==
    [id |-> id, h |-> h, eloRating |-> rating * Unit, comparisons |-> comparisons,
     wins |-> wins, losses |-> losses]

\* two supplied items with their statistics
TwoItems == <<Item(0, 200, 1500, 0, 0, 0), Item(1, 40, 1520, 3, 2, 1)>>

\* three supplied items, one far ahead, compared often enough for promotion
ThreeItems ==
    <<Item(0, 40, 1700, 12, 9, 3), Item(1, 40, 1500, 10, 5, 5),
      Item(2, 250, 1450, 4, 1, 2)>>

\* twelve supplied items: eleven at 1500 and one far below
TwelveItems ==
    [i \in 1..12 |-> IF i = 5 THEN Item(4, 100, 1200, 10, 2, 8)
                     ELSE Item(i - 1, (i * 47) % 360, 1500, 10, 5, 5)]

\* the options a session is constructed with (0: the option is not given)
OptionSet ==
    { GenOptions(3, 3, SettingsOf(2)),
      GenOptions(2, 2, Undefined),
      ItemOptions(TwoItems, 0, SettingsOf(10)),
      SourcelessOptions("undefined", 0),
      SourcelessOptions("false", 2) }

\* supplied items without statistics
BareItems == <<Item(7, 10, 0, 0, 0, 0), Item(8, 130, 0, 0, 0, 0)>>

\* the options a pool is built from
PoolOptionSet ==
    { GenOptions(0, 2, Undefined), GenOptions(1, 2, Undefined),
      GenOptions(3, 2, Undefined),
      ListOptions(BareItems, 2, Undefined), ListOptions(TwoItems, 2, Undefined),
      ItemOptions(BareItems, 2, Undefined), ItemOptions(TwoItems, 2, Undefined) }

\* Math.random() of the item generator when a pool is built
PoolSeeds == {k * PoolSeedStep : k \in 0..(PoolSeedCount - 1)}

\* the options of a session that is followed from its start: a pool larger
\* than a batch, and pools late in a session
RunOptionSet ==
    { GenOptions(11, 1, SettingsOf(10)),
      ItemOptions(TwelveItems, 12, SettingsOf(10)),
      ItemOptions(ThreeItems, 26, Undefined) }

\* the pools the batch selector is called on
SelectOptionSet ==
    { GenOptions(5, 3, SettingsOf(10)), ItemOptions(ThreeItems, 3, SettingsOf(10)) }

\* the id lists pick() and setFavorites() are called with
PickLists == {<<>>, <<0>>, <<1>>, <<0, 1>>, <<2, ForeignId>>, <<ForeignId>>}
FavoriteLists == {<<1>>, <<0, 0>>}

NoAnalytics ==
    [totalComparisons |-> 0, sessionComparisons |-> 0, passes |-> 0, picks |-> 0,
     decisionTimes |-> 0]

AnalyticsAt(rounds) ==
    [totalComparisons |-> rounds, sessionComparisons |-> rounds, passes |-> 0,
     picks |-> rounds, decisionTimes |-> rounds]

Saved(id, rating, comparisons, wins, losses) ==
    [id |-> id, eloRating |-> rating * Unit, comparisons |-> comparisons,
     wins |-> wins, losses |-> losses]

Snapshot(cs, ev, fav, elim, hasAnalytics, an, complete) ==
    [colors |-> cs, evaluating |-> ev, favorites |-> fav, eliminated |-> elim,
     settings |-> Undefined, hasAnalytics |-> hasAnalytics, analytics |-> an,
     sessionComplete |-> complete]

\* the snapshots restoreState() is called with
SnapshotSet ==
    { Snapshot(<<Saved(0, 1532, 1, 1, 0), Saved(1, 1468, 1, 0, 1), Saved(ForeignId, 1600, 1, 1, 0)>>,
               <<0, 1, ForeignId>>, <<>>, <<>>, TRUE, AnalyticsAt(1), FALSE),
      Snapshot(<<>>, <<>>, <<>>, <<>>, TRUE, AnalyticsAt(1), FALSE),
      Snapshot(<<>>, ABSENT, <<>>, <<>>, FALSE, NoAnalytics, FALSE),
      Snapshot(<<>>, <<0, 1>>, <<>>, <<>>, TRUE, AnalyticsAt(1), TRUE),
      Snapshot(<<>>, <<0, 1>>, <<1>>, <<1, 1>>, TRUE, AnalyticsAt(1), FALSE),
      Snapshot(<<>>, <<0, 1>>, <<>>, <<>>, TRUE, AnalyticsAt(FavForceRounds + 2), FALSE),
      Snapshot(<<>>, <<0, 1>>, <<>>, <<>>, TRUE, AnalyticsAt(3), FALSE) }

\* snapshots taken late in a session
RunSnapshotSet ==
    { Snapshot(<<>>, <<0, 1, 2>>, <<>>, <<>>, TRUE, AnalyticsAt(ElimMinRounds), FALSE),
      Snapshot(<<>>, <<0, 1, 2>>, <<>>, <<>>, TRUE, AnalyticsAt(FavMinRounds - 1), FALSE),
      Snapshot(<<>>, <<0, 1, 2>>, <<>>, <<>>, TRUE, AnalyticsAt(FavForceRounds - 1), FALSE),
      Snapshot(<<Saved(0, 1560, 12, 9, 3)>>, <<0, 1, 2>>, <<>>, <<>>, TRUE,
               AnalyticsAt(FavMinRounds - 1), FALSE),
      Snapshot(<<Saved(0, 1560, 12, 9, 3)>>, <<0, 1, 2>>, <<>>, <<>>, TRUE,
               AnalyticsAt(FavForceRounds - 1), FALSE) }

-----------------------------------------------------------------------------
(* The session object *)

State ==
    [options |-> options, maxComparisons |-> maxComparisons, analytics |-> analytics,
     colors |-> colors, eliminated |-> eliminated, favorites |-> favorites,
     evaluating |-> evaluating, settings |-> settings,
     sessionComplete |-> sessionComplete, itemsAliased |-> itemsAliased]

\* !options.items && !options.generateColors
Sourceless(opts) == ~opts.hasItems /\ opts.generateColors # "true"

\* a variant: the constructor returns early only when the flag is not given
UnconstructedIfNoFlag(st) ==
    ~st.options.hasItems /\ st.options.generateColors = "undefined"

\* the object the constructor left without fields (line 187): options here
\* are the options it was called with, the other fields stand for undefined
Unconstructed(st) == Sourceless(st.options)

\* the state after new EloPickerState(opts)
Constructed(opts) ==
    IF Sourceless(opts)
    THEN [options |-> opts, maxComparisons |-> 0,
          analytics |-> NoAnalytics, colors |-> <<>>, eliminated |-> <<>>,
          favorites |-> <<>>, evaluating |-> NULL, settings |-> Undefined,
          sessionComplete |-> FALSE, itemsAliased |-> FALSE]
    ELSE
    [options |-> opts,
     maxComparisons |-> IF opts.maxComparisons = 0 THEN DefaultMaxComparisons
                        ELSE opts.maxComparisons,
     analytics |-> NoAnalytics, colors |-> <<>>, eliminated |-> <<>>,
     favorites |-> <<>>, evaluating |-> NULL,
     settings |-> [defined |-> TRUE, batchSize |-> 0],
     sessionComplete |-> FALSE, itemsAliased |-> FALSE]

\* positions of the pool in array order
Positions(cs) == [i \in 1..Len(cs) |-> i]

\* a variant: favorites stay available
IsNotEliminated(st, c) == ~Includes(st.eliminated, c)

\* c is neither eliminated nor a favorite
IsAvailable(st, c) == ~Includes(st.eliminated, c) /\ ~Includes(st.favorites, c)

\* a variant: the rating at the head of the rating order
ThresholdOfTop(cs, sortedByRating) == cs[sortedByRating[1]].eloRating

\* sortedByRating[Math.floor(sortedByRating.length * 0.75)]?.eloRating || 1500
\* (0-based index; sortedByRating is not empty)
Threshold(cs, sortedByRating) ==
    LET atIndex == cs[sortedByRating[((Len(sortedByRating) * 3) \div 4) + 1]].eloRating
    IN  IF atIndex = 0 THEN ThresholdFallback * Unit ELSE atIndex

\* a variant: the selector is given every available item
Unfiltered(elim, available) == available

\* available.filter(c => !this.eliminated.includes(c))
NotEliminated(elim, available) == SelectSeq(available, LAMBDA c : ~Includes(elim, c))

nextBatch(st) ==
    \* this.analytics is undefined: TypeError
    IF Unconstructed(st) THEN {st}
    ELSE IF st.sessionComplete \/ st.analytics.sessionComparisons >= st.maxComparisons
    THEN {[st EXCEPT !.evaluating = NULL, !.sessionComplete = TRUE]}
    ELSE
    LET available == SelectSeq(Positions(st.colors), LAMBDA c : IsAvailable(st, c))
    IN  IF Len(available) = 0
        THEN {[st EXCEPT !.evaluating = NULL, !.sessionComplete = TRUE]}
        ELSE
        LET sortedByRating == SortByRating(st.colors, available)
            threshold == Threshold(st.colors, sortedByRating)
            dropped   == SelectSeq(available, LAMBDA c :
                            /\ st.colors[c].comparisons >= ElimMinComparisons
                            /\ st.colors[c].eloRating < threshold - ElimMargin * Unit)
            elim      == IF st.analytics.sessionComparisons >= ElimMinRounds
                         THEN st.eliminated \o dropped ELSE st.eliminated
            batchSize == Min(BatchCap, Len(available))
            rest      == NotEliminated(elim, available)
        IN  {[st EXCEPT !.eliminated = elim, !.evaluating = batch] :
                batch \in selectDiverseBatch(st.colors, rest, batchSize)}

\* a variant: the top item is always measured against the fallback rating
fallbackSecondBest(cs, sorted) == SecondBestFallback * Unit

\* sorted[1]?.eloRating || 1500
secondBest(cs, sorted) ==
    IF Len(sorted) >= 2 /\ cs[sorted[2]].eloRating # 0
    THEN cs[sorted[2]].eloRating
    ELSE SecondBestFallback * Unit

\* the body of checkForNewFavorites() under its guard (lines 496-511)
Promotion(st) ==
    LET available == SelectSeq(Positions(st.colors), LAMBDA c :
                        IsAvailable(st, c)
                        /\ st.colors[c].comparisons >= FavMinComparisons)
        sorted == SortByRating(st.colors, available)
    IN  IF Len(sorted) > 0
        THEN LET topColor == st.colors[sorted[1]]
             IN  IF \/ topColor.eloRating > secondBest(st.colors, sorted) + FavMargin * Unit
                    \/ st.analytics.sessionComparisons >= FavForceRounds
                 THEN [st EXCEPT !.favorites = Append(@, sorted[1])]
                 ELSE st
        ELSE st

\* a variant: the promotion is tried whatever the round count is
promoteAtAnyCount(st) == Promotion(st)

checkForNewFavorites(st) ==
    IF st.analytics.sessionComparisons >= FavMinRounds THEN Promotion(st) ELSE st

\* a variant: the batch is dropped, the session is not marked complete
Interrupted(st) == [st EXCEPT !.evaluating = NULL]

\* sessionComplete = true, evaluating = null
Completed(st) == [st EXCEPT !.sessionComplete = TRUE, !.evaluating = NULL]

\* the objects of options.items are those of this.colors after a
\* restoreState() that adopted them
Shared(st) == IF st.itemsAliased THEN [st EXCEPT !.options.items = st.colors] ELSE st

pick(st, picked) ==
    IF st.evaluating = NULL \/ Len(picked) = 0 THEN {st}
    ELSE IF st.sessionComplete \/ st.analytics.sessionComparisons >= st.maxComparisons
    THEN {Completed(st)}
    ELSE
    LET pickedSet == Range(picked)
        winners == SelectSeq(st.evaluating, LAMBDA c : st.colors[c].id \in pickedSet)
        losers  == SelectSeq(st.evaluating, LAMBDA c : st.colors[c].id \notin pickedSet)
        c1 == ApplyPairs(st.colors, WinLossPairs(winners, losers), FALSE)
        c2 == IF Len(winners) > 1 THEN ApplyPairs(c1, DrawPairs(winners), TRUE) ELSE c1
        an == [st.analytics EXCEPT !.decisionTimes = @ + 1,
                                   !.sessionComparisons = @ + 1,
                                   !.totalComparisons = @ + 1,
                                   !.picks = @ + 1]
        s1 == checkForNewFavorites(Shared([st EXCEPT !.colors = c2, !.analytics = an]))
    IN  IF s1.analytics.sessionComparisons >= s1.maxComparisons
        THEN {Completed(s1)}
        ELSE nextBatch(s1)

\* a variant: the call is counted whatever the state
passAlways(st) == {[st EXCEPT !.analytics.passes = @ + 1]}

pass(st) ==
    IF st.evaluating = NULL THEN {st}
    ELSE IF st.sessionComplete \/ st.analytics.sessionComparisons >= st.maxComparisons
    THEN {Completed(st)}
    ELSE
    LET c1 == ApplyPairs(st.colors, DrawPairs(st.evaluating), TRUE)
        an == [st.analytics EXCEPT !.decisionTimes = @ + 1,
                                   !.sessionComparisons = @ + 1,
                                   !.passes = @ + 1]
        s1 == Shared([st EXCEPT !.colors = c1, !.analytics = an])
    IN  IF s1.analytics.sessionComparisons >= s1.maxComparisons
        THEN {Completed(s1)}
        ELSE nextBatch(s1)

\* x || fallback on a number
OrElse(x, fallback) == IF x = 0 THEN fallback ELSE x

\* lines 233-243: the pool initialize() starts from
InitialPool(st, seed) ==
    IF st.options.generateColors # "false"
    THEN generatePerceptuallyDistinctColors(
             OrElse(st.options.colorCount, DefaultColorCount), seed)
    ELSE [i \in DOMAIN st.options.items |->
            [st.options.items[i] EXCEPT !.eloRating = OrElse(@, InitialRating * Unit)]]

initialize(st, settingsArg, seed) ==
    \* this.options is undefined: settings is assigned when the argument is
    \* given, then TypeError
    IF Unconstructed(st)
    THEN {[st EXCEPT !.settings = IF settingsArg.defined THEN settingsArg ELSE @]}
    ELSE
    LET chosen == IF settingsArg.defined THEN settingsArg
                  ELSE IF st.options.defaultSettings.defined THEN st.options.defaultSettings
                  ELSE SettingsOf(DefaultBatchSize)
        pool == InitialPool(st, seed)
    IN  nextBatch([st EXCEPT !.settings = chosen, !.colors = pool,
                             !.eliminated = <<>>, !.favorites = <<>>,
                             !.evaluating = NULL, !.sessionComplete = FALSE,
                             !.itemsAliased = FALSE,
                             !.analytics.sessionComparisons = 0])

reset(st, seed) == initialize(st, st.settings, seed)

\* colorMap.get(id): the position of the last item with that id, 0 for none
ColorMapGet(cs, id) ==
    LET at == {i \in DOMAIN cs : cs[i].id = id}
    IN  IF at = {} THEN 0 ELSE CHOOSE i \in at : \A j \in at : j <= i

\* a variant: the ids without an item are kept, as no item
MapIdsUnfiltered(cs, ids) == [k \in DOMAIN ids |-> ColorMapGet(cs, ids[k])]

\* ids.map(id => colorMap.get(id)).filter(c => c)
MapIds(cs, ids) ==
    SelectSeq([k \in DOMAIN ids |-> ColorMapGet(cs, ids[k])], LAMBDA c : c # 0)

RECURSIVE Overlay(_, _)
\* state.colors.forEach: the saved statistics written onto the pool by id
Overlay(cs, saved) ==
    IF saved = <<>> THEN cs
    ELSE LET c == ColorMapGet(cs, saved[1].id)
         IN  Overlay(IF c = 0 THEN cs
                     ELSE [cs EXCEPT ![c].eloRating = saved[1].eloRating,
                                     ![c].comparisons = saved[1].comparisons,
                                     ![c].wins = saved[1].wins,
                                     ![c].losses = saved[1].losses],
                     Tail(saved))

\* a variant: only the snapshot's flag ends the restored session
FlaggedAtEnd(st) == st.sessionComplete

\* line 288: the restored session is complete or at its cap
RestoredAtEnd(st) ==
    st.sessionComplete \/ st.analytics.sessionComparisons >= st.maxComparisons

restoreState(st, state, seed) ==
    \* this.options is undefined: settings is assigned when the snapshot has
    \* settings, then TypeError
    IF Unconstructed(st)
    THEN [st EXCEPT !.settings = IF state.settings.defined THEN state.settings ELSE @]
    ELSE
    LET chosen == IF state.settings.defined THEN state.settings
                  ELSE IF st.options.defaultSettings.defined THEN st.options.defaultSettings
                  ELSE SettingsOf(DefaultBatchSize)
        generated == st.options.generateColors # "false"
        pool == IF generated
                THEN generatePerceptuallyDistinctColors(
                         OrElse(st.options.colorCount, DefaultColorCount), seed)
                ELSE st.options.items
        cs == Overlay(pool, state.colors)
        an == IF state.hasAnalytics THEN state.analytics ELSE st.analytics
        s1 == [st EXCEPT !.settings = chosen, !.colors = cs,
                         !.itemsAliased = ~generated,
                         !.evaluating = IF state.evaluating = ABSENT THEN NULL
                                        ELSE MapIds(cs, state.evaluating),
                         !.favorites = MapIds(cs, state.favorites),
                         !.eliminated = MapIds(cs, state.eliminated),
                         !.analytics = an,
                         !.sessionComplete = state.sessionComplete]
    IN  IF RestoredAtEnd(s1) THEN Completed(Shared(s1)) ELSE Shared(s1)

\* a variant: ids and ratings are saved, the counts are not
getStateRatingsOnly(st) ==
    [colors |-> [i \in DOMAIN st.colors |->
                    [id |-> st.colors[i].id, eloRating |-> st.colors[i].eloRating,
                     comparisons |-> 0, wins |-> 0, losses |-> 0]],
     evaluating |-> IF st.evaluating = NULL THEN <<>>
                    ELSE [k \in DOMAIN st.evaluating |-> st.colors[st.evaluating[k]].id],
     favorites |-> [k \in DOMAIN st.favorites |-> st.colors[st.favorites[k]].id],
     eliminated |-> [k \in DOMAIN st.eliminated |-> st.colors[st.eliminated[k]].id],
     settings |-> st.settings, hasAnalytics |-> TRUE, analytics |-> st.analytics,
     sessionComplete |-> st.sessionComplete]

\* getState(): the statistics of every item, the lists as ids, copies of
\* settings and analytics
getState(st) ==
    [colors |-> [i \in DOMAIN st.colors |->
                    [id |-> st.colors[i].id, eloRating |-> st.colors[i].eloRating,
                     comparisons |-> st.colors[i].comparisons,
                     wins |-> st.colors[i].wins, losses |-> st.colors[i].losses]],
     evaluating |-> IF st.evaluating = NULL THEN <<>>
                    ELSE [k \in DOMAIN st.evaluating |-> st.colors[st.evaluating[k]].id],
     favorites |-> [k \in DOMAIN st.favorites |-> st.colors[st.favorites[k]].id],
     eliminated |-> [k \in DOMAIN st.eliminated |-> st.colors[st.eliminated[k]].id],
     settings |-> st.settings, hasAnalytics |-> TRUE, analytics |-> st.analytics,
     sessionComplete |-> st.sessionComplete]

\* a snapshot object in the caller's hands; shared: its analytics object is
\* the session's this.analytics
Handed(state, shared) == [given |-> TRUE, shared |-> shared, state |-> state]

\* no snapshot object yet
NoSnapshot ==
    [given |-> FALSE, shared |-> FALSE,
     state |-> Snapshot(<<>>, ABSENT, <<>>, <<>>, FALSE, NoAnalytics, FALSE)]

\* this.analytics = state.analytics || this.analytics: the session keeps the
\* snapshot's own analytics object when it has one
SharesAnalytics(st, state) == ~Unconstructed(st) /\ state.hasAnalytics

\* a snapshot object handed in earlier, once state has been restored: the
\* session has let go of its analytics object if state brought its own
Unbound(obj, st, state) ==
    IF SharesAnalytics(st, state) THEN [obj EXCEPT !.shared = FALSE] ELSE obj

\* what the caller reads in a snapshot object once the session is st: the
\* session writes its counters on this.analytics
Seen(obj, st) == IF obj.shared THEN [obj EXCEPT !.state.analytics = st.analytics] ELSE obj

setFavorites(st, ids) ==
    \* this.colors is undefined: TypeError
    IF Unconstructed(st) THEN st
    ELSE [st EXCEPT !.favorites = MapIds(st.colors, ids)]

\* a variant: the list is taken from the available items only
getTopAvailable(st, count) ==
    LET available == SelectSeq(Positions(st.colors), LAMBDA c : IsAvailable(st, c))
    IN  SubSeq(SortByRating(st.colors, available), 1, Min(count, Len(available)))

\* [...this.colors].sort((a, b) => b.eloRating - a.eloRating).slice(0, count)
\* for count >= 0: the sort is stable and works on a copy
getTopColors(st, count) ==
    SubSeq(SortByRating(st.colors, Positions(st.colors)), 1, Min(count, Len(st.colors)))

-----------------------------------------------------------------------------
(* The page before the consistency tracker is constructed *)

\* setInterval(..., 100), setTimeout(..., 5000) of the user-identity UI and
\* setTimeout(..., 1000) of the enhanced features, in ms
PollInterval == 100
IdentityTimeout == 5000
EnhancedDelay == 1000

\* no user id: localStorage.getItem() gives null, a session has no userId
NoUser == 0

\* localStorage: the value under 'colorPicker_userId', the list under
\* 'colorPicker_sessionHistory' (empty when the key is absent), and whether
\* setItem() throws (quota exceeded)
Storage(id, list, full) == [userId |-> id, sessions |-> list, full |-> full]

\* a JavaScript number that is a fraction num/den (den > 0) or NaN
Number(num, den) == [nan |-> FALSE, num |-> num, den |-> den]
NaN == [nan |-> TRUE, num |-> 0, den |-> 1]

\* no consistency has been calculated
NoConsistency ==
    [session1Colors |-> <<>>, session2Colors |-> <<>>, matchedColors |-> <<>>,
     overlapCount |-> 0, rankCorrelation |-> Number(0, 1)]

\* no timer is set, no tracker is there
NoTimers ==
    /\ now = 0
    /\ windowTracker = FALSE
    /\ enhanced = "pending"
    /\ enhancedDue = 0
    /\ polling = FALSE
    /\ nextPoll = 0
    /\ timeoutPending = FALSE
    /\ identityUI = 0
    /\ errorText = FALSE

NoPage ==
    /\ userId = NoUser
    /\ sessions = <<>>
    /\ localStorage = Storage(NoUser, <<>>, FALSE)
    /\ consistency = NoConsistency
    /\ NoTimers

-----------------------------------------------------------------------------
(* Specification *)

\* the fields of the session object are those of st
Is(st) ==
    /\ options = st.options
    /\ maxComparisons = st.maxComparisons
    /\ analytics = st.analytics
    /\ colors = st.colors
    /\ eliminated = st.eliminated
    /\ favorites = st.favorites
    /\ evaluating = st.evaluating
    /\ settings = st.settings
    /\ sessionComplete = st.sessionComplete
    /\ itemsAliased = st.itemsAliased

\* the fields of the session object become those of st
Becomes(st) ==
    /\ options' = st.options
    /\ maxComparisons' = st.maxComparisons
    /\ analytics' = st.analytics
    /\ colors' = st.colors
    /\ eliminated' = st.eliminated
    /\ favorites' = st.favorites
    /\ evaluating' = st.evaluating
    /\ settings' = st.settings
    /\ sessionComplete' = st.sessionComplete
    /\ itemsAliased' = st.itemsAliased

Called(op, arg) == lastOp' = [op |-> op, arg |-> arg]

\* the caller's snapshot objects once the session has become st
Held(st) ==
    /\ passed' = Seen(passed, st)
    /\ taken' = Seen(taken, st)

\* new EloPickerState(opts)
New(opts) ==
    /\ Is(Constructed(opts))
    /\ lastOp = [op |-> "new", arg |-> <<>>]
    /\ started = "new"
    /\ passed = NoSnapshot
    /\ taken = NoSnapshot
    /\ decisions = 0

Init == (\E opts \in OptionSet : New(opts)) /\ NoPage

\* how the session was entered after a call of op: a call that throws on
\* the object without fields enters nothing
Entered(op) == IF Unconstructed(State) THEN started ELSE op

Initialize ==
    \E seed \in HueSeeds : \E st \in initialize(State, Undefined, seed) :
        /\ Becomes(st)
        /\ Held(st)
        /\ Called("initialize", <<>>)
        /\ started' = Entered("initialize")
        /\ UNCHANGED decisions
        /\ UNCHANGED pageVars

Reset ==
    /\ started # "new"
    /\ \E seed \in HueSeeds : \E st \in reset(State, seed) :
            /\ Becomes(st)
            /\ Held(st)
            /\ Called("reset", <<>>)
            /\ started' = "initialize"
            /\ UNCHANGED decisions
            /\ UNCHANGED pageVars

Restore(snapshots) ==
    \E state \in snapshots, seed \in HueSeeds :
        /\ Becomes(restoreState(State, state, seed))
        /\ passed' = Seen(Unbound(passed, State, state), restoreState(State, state, seed))
        /\ taken' = Seen(Unbound(taken, State, state), restoreState(State, state, seed))
        /\ Called("restoreState", <<>>)
        /\ started' = Entered("restoreState")
        /\ UNCHANGED decisions
        /\ UNCHANGED pageVars

RestoreState == Restore(SnapshotSet)

NextBatch ==
    \E st \in nextBatch(State) :
        /\ Becomes(st)
        /\ Held(st)
        /\ Called("nextBatch", <<>>)
        /\ UNCHANGED <<started, decisions>>
        /\ UNCHANGED pageVars

\* a call that returns at the guard of line 418 is not a decision
Pick ==
    /\ decisions < MaxDecisions
    /\ \E picked \in PickLists : \E st \in pick(State, picked) :
            /\ Becomes(st)
            /\ Held(st)
            /\ Called("pick", picked)
            /\ decisions' = IF evaluating = NULL \/ picked = <<>> THEN decisions
                            ELSE decisions + 1
            /\ UNCHANGED started
            /\ UNCHANGED pageVars

Pass ==
    /\ decisions < MaxDecisions
    /\ \E st \in pass(State) :
            /\ Becomes(st)
            /\ Held(st)
            /\ Called("pass", <<>>)
            /\ decisions' = IF evaluating = NULL THEN decisions ELSE decisions + 1
            /\ UNCHANGED started
            /\ UNCHANGED pageVars

SetFavorites ==
    /\ started # "new"
    /\ \E ids \in FavoriteLists :
            /\ Becomes(setFavorites(State, ids))
            /\ Held(setFavorites(State, ids))
            /\ Called("setFavorites", ids)
            /\ UNCHANGED <<started, decisions>>
            /\ UNCHANGED pageVars

Next == Initialize \/ Reset \/ RestoreState \/ NextBatch \/ Pick \/ Pass \/ SetFavorites

Spec == Init /\ [][Next]_vars

\* One session followed from its start: entered once, by initialize() or by
\* restoreState() of a late snapshot, then decided round by round.
InitRun == (\E opts \in RunOptionSet : New(opts)) /\ NoPage

\* a generated pool is entered by initialize(), a supplied one by
\* restoreState() of a snapshot taken late in its session
Enter ==
    /\ started = "new"
    /\ \/ options.generateColors = "true" /\ Initialize
       \/ options.generateColors = "false" /\ Restore(RunSnapshotSet)

NextRun == Enter \/ NextBatch \/ Pick \/ Pass

SpecRun == InitRun /\ [][NextRun]_vars

\* The batch selector called on its own: on every sub-list of the pool, in
\* pool order, and every size up to MaxSize.  The batch it returns is kept in
\* evaluating, its arguments in lastOp.
InitSelect == (\E opts \in SelectOptionSet : New(opts)) /\ NoPage

EnterSelect == started = "new" /\ Initialize

Select ==
    /\ started # "new"
    /\ \E S \in SUBSET (DOMAIN colors), size \in 0..MaxSize :
          LET available == SetToSeq(S)
          IN  \E batch \in selectDiverseBatch(colors, available, size) :
                /\ evaluating' = batch
                /\ lastOp' = [op |-> "selectDiverseBatch", arg |-> available,
                              size |-> size]
                /\ UNCHANGED <<options, maxComparisons, analytics, colors, eliminated,
                               favorites, settings, sessionComplete, itemsAliased,
                               started, decisions, passed, taken>>
                /\ UNCHANGED pageVars

NextSelect == EnterSelect \/ Select

SpecSelect == InitSelect /\ [][NextSelect]_vars

\* The pool initialize() starts from (lines 233-243), built on its own: the
\* default of 200 generated items leaves more first batches than can be
\* listed, so the batch is not drawn here.
InitPool == (\E opts \in PoolOptionSet : New(opts)) /\ NoPage

BuildPool ==
    /\ lastOp.op = "new"
    /\ \E seed \in PoolSeeds :
          /\ colors' = InitialPool(State, seed)
          /\ Called("pool", <<>>)
          /\ UNCHANGED <<options, maxComparisons, analytics, eliminated, favorites,
                         evaluating, settings, sessionComplete, itemsAliased,
                         started, decisions, passed, taken>>
          /\ UNCHANGED pageVars

SpecPool == InitPool /\ [][BuildPool]_vars

-----------------------------------------------------------------------------
(* Properties *)

Active == ~sessionComplete /\ evaluating # NULL /\ evaluating # <<>>

Complete == sessionComplete /\ evaluating = NULL

\* the items of a sequence of items are pairwise distinct
Distinct(s) == \A i, j \in DOMAIN s : i # j => s[i] # s[j]

\* C1: from initialize() on, whatever pick, pass and nextBatch calls follow,
\* sessionComparisons never exceeds maxComparisons, and when it equals
\* maxComparisons the session is complete and has no batch.
C1_CapRespected ==
    started = "initialize" =>
        /\ analytics.sessionComparisons <= maxComparisons
        /\ analytics.sessionComparisons = maxComparisons => Complete

\* a pass() has taken an initialized session to its cap
C1_Witness ==
    /\ started = "initialize"
    /\ lastOp.op = "pass"
    /\ analytics.passes = maxComparisons
    /\ analytics.sessionComparisons = maxComparisons
    /\ Complete

\* C2: every state reached by initialize() or restoreState() and the calls
\* that follow is Active (not complete, a non-empty batch) or Complete
\* (complete, no batch).
C2_ActiveOrComplete == started # "new" => Active \/ Complete

\* C3: eliminated and favorites share no item and neither holds an item twice.
C3_DisjointLists ==
    /\ Distinct(eliminated)
    /\ Distinct(favorites)
    /\ Range(eliminated) \cap Range(favorites) = {}

\* C4: wins + losses <= comparisons for every item of the pool.
C4_WinsLossesWithinComparisons ==
    \A i \in DOMAIN colors : colors[i].wins + colors[i].losses <= colors[i].comparisons

\* a pick() has recorded wins, losses and a draw between two winners
C4_Witness ==
    /\ lastOp.op = "pick"
    /\ Len(lastOp.arg) = 2
    /\ \E i, j \in DOMAIN colors :
          /\ colors[i].wins > 0
          /\ colors[i].comparisons > colors[i].wins + colors[i].losses
          /\ colors[j].losses > 0

\* the step is a call of op that counted a round
Decided(op) == lastOp'.op = op /\ analytics'.decisionTimes = analytics.decisionTimes + 1

\* the step leaves a batch that initialize(), reset(), nextBatch(), pick() or
\* pass() has produced
ProducesBatch ==
    /\ evaluating' # NULL
    /\ \/ lastOp'.op \in {"initialize", "reset", "nextBatch"}
       \/ Decided("pick")
       \/ Decided("pass")

\* C5: a batch produced by initialize, pick, pass or nextBatch has pairwise
\* distinct items, none of them eliminated or a favorite when it is produced.
C5_BatchDistinctAndActive ==
    [][ProducesBatch =>
          /\ Distinct(evaluating')
          /\ Range(evaluating') \subseteq DOMAIN colors'
          /\ Range(evaluating') \cap (Range(eliminated') \cup Range(favorites')) = {}]_vars

\* a pick() has eliminated an item and drawn a full batch from the eleven left
C5_Witness ==
    /\ lastOp.op = "pick"
    /\ eliminated # <<>>
    /\ evaluating # NULL
    /\ Len(evaluating) = BatchCap
    /\ Len(colors) - Len(eliminated) > BatchCap

\* C6: selectDiverseBatch(available, size) returns min(size, |available|)
\* items, whatever the random draws are.
C6_ExactSize ==
    lastOp.op = "selectDiverseBatch" =>
        Len(evaluating) = Min(lastOp.size, Len(lastOp.arg))

\* C7: after initialize() and the pick() and pass() calls that follow, the
\* batch holds no more items than settings.batchSize.
C7_BatchWithinConfiguredSize ==
    (started = "initialize" /\ evaluating # NULL) =>
        Len(evaluating) <= settings.batchSize

\* the step is a call made in an invalid state: pick([]), pick or pass without
\* a batch, pick, pass or nextBatch on a complete session
InvalidCall ==
    \/ lastOp'.op = "pick" /\ (lastOp'.arg = <<>> \/ evaluating = NULL \/ sessionComplete)
    \/ lastOp'.op = "pass" /\ (evaluating = NULL \/ sessionComplete)
    \/ lastOp'.op = "nextBatch" /\ sessionComplete

InBatch(picked) ==
    SelectSeq(picked, LAMBDA id : \E i \in DOMAIN evaluating : colors[evaluating[i]].id = id)

\* item statistics, analytics counters and membership lists of the outcomes
Outcome(S) ==
    {[colors |-> st.colors, analytics |-> st.analytics,
      eliminated |-> st.eliminated, favorites |-> st.favorites] : st \in S}

\* C9: on an Active session pick(P) leaves the item statistics, analytics
\* counters and membership lists that pick(P') leaves, P' being P without
\* the ids outside the current batch.
C9_ForeignIdsIgnored ==
    Active => \A P \in PickLists :
                 Outcome(pick(State, P)) = Outcome(pick(State, InBatch(P)))

\* updateEloRatings(w, l, isDraw) on the pool moves the winner by kWin and
\* the loser by kLose times (score - expected)
MovesBy(w, l, isDraw, kWin, kLose) ==
    LET after == updateEloRatings(colors, w, l, isDraw)
        ew    == calculateExpectedScore(colors[w].eloRating, colors[l].eloRating)
        el    == calculateExpectedScore(colors[l].eloRating, colors[w].eloRating)
    IN  /\ after[w].eloRating - colors[w].eloRating
             = RatingDelta(kWin, IF isDraw THEN 1 ELSE 2, ew)
        /\ after[l].eloRating - colors[l].eloRating
             = RatingDelta(kLose, IF isDraw THEN 1 ELSE 0, el)

\* C10: updateEloRatings changes both ratings with one step size, computed
\* from the winner's comparison count before the update:
\* K = max(32, 64 - 2 * winner.comparisons).
C10_SharedStepSize ==
    \A w, l \in DOMAIN colors : \A isDraw \in BOOLEAN :
        w # l => MovesBy(w, l, isDraw, kFactor(colors[w]), kFactor(colors[w]))

\* C10 as stated: each rating changes with the step size of its own item's
\* comparison count; the loser's with the loser's.
C10_OwnStepSize ==
    \A w, l \in DOMAIN colors : \A isDraw \in BOOLEAN :
        w # l => MovesBy(w, l, isDraw, kFactor(colors[w]), kFactor(colors[l]))

\* a pick() has updated a winner and a loser whose counts give different
\* step sizes
C10_Witness ==
    /\ lastOp.op = "pick"
    /\ \E w, l \in DOMAIN colors :
          /\ colors[w].wins > 0
          /\ colors[l].losses > 0
          /\ kFactor(colors[w]) # kFactor(colors[l])

RECURSIVE SumOfRatings(_)
\* the sum of the ratings of a list of items
SumOfRatings(cs) == IF cs = <<>> THEN 0 ELSE cs[1].eloRating + SumOfRatings(Tail(cs))

\* updateEloRatings(w, l, isDraw) on the pool moves the two ratings by
\* opposite amounts, and apart in a win between items of equal rating and count
OppositeMoves(w, l, isDraw) ==
    LET after == updateEloRatings(colors, w, l, isDraw)
        dw    == after[w].eloRating - colors[w].eloRating
        dl    == after[l].eloRating - colors[l].eloRating
    IN  /\ dw + dl = 0
        /\ (/\ ~isDraw
            /\ colors[w].eloRating = colors[l].eloRating
            /\ colors[w].comparisons = colors[l].comparisons) => (dw > 0 /\ dl < 0)

\* C11: every pairwise update moves the two ratings by equal and opposite
\* amounts (the winner up, the loser down in a win between items of equal
\* rating and count), and no pick() or pass() changes the sum of the ratings
\* of the pool.
C11_ZeroSum ==
    /\ [](\A w, l \in DOMAIN colors : \A isDraw \in BOOLEAN :
              w # l => OppositeMoves(w, l, isDraw))
    /\ [][lastOp'.op \in {"pick", "pass"} =>
              SumOfRatings(colors') = SumOfRatings(colors)]_vars

\* a pick() on a fresh pool has moved one item up and another down, the sum
\* of the pool being what it was
C11_Witness ==
    /\ started = "initialize"
    /\ lastOp.op = "pick"
    /\ analytics.picks = 1
    /\ SumOfRatings(colors) = Len(colors) * InitialRating * Unit
    /\ \E i, j \in DOMAIN colors :
          /\ colors[i].eloRating > InitialRating * Unit
          /\ colors[j].eloRating < InitialRating * Unit

\* a pool of three items, all at the initial rating and never compared, all
\* three in the batch
FreshThree ==
    /\ Active
    /\ Len(colors) = 3
    /\ Range(evaluating) = DOMAIN colors
    /\ \A i \in DOMAIN colors :
          colors[i].eloRating = InitialRating * Unit /\ colors[i].comparisons = 0

\* C12: on three fresh items, all in the batch, pick of one item raises its
\* rating and lowers the ratings of the other two by the same amount.
C12_EqualLosses ==
    FreshThree =>
        \A p \in DOMAIN colors : \A st \in pick(State, <<colors[p].id>>) :
            /\ st.colors[p].eloRating > colors[p].eloRating
            /\ \A i, j \in DOMAIN colors \ {p} :
                  /\ st.colors[i].eloRating < colors[i].eloRating
                  /\ colors[i].eloRating - st.colors[i].eloRating
                        = colors[j].eloRating - st.colors[j].eloRating

\* one more comparison for the items of the batch, none for the others
CountsOneRound(st) ==
    \A i \in DOMAIN colors :
        st.colors[i].comparisons
            = colors[i].comparisons + (IF i \in Range(evaluating) THEN 1 ELSE 0)

\* C13: a decided round adds one to comparisons of every item of its batch
\* and nothing to the others, so that comparisons counts the rounds an item
\* took part in.
C13_CountsRounds ==
    Active =>
        /\ \A P \in {L \in PickLists : L # <<>> /\ InBatch(L) = L} :
              \A st \in pick(State, P) : CountsOneRound(st)
        /\ \A st \in pass(State) : CountsOneRound(st)

\* C14: with colorCount 0 and generation enabled the pool initialize()
\* builds is empty, so that the session completes at once without a batch.
C14_EmptyPoolWhenCountZero ==
    (/\ lastOp.op = "pool"
     /\ options.generateColors = "true"
     /\ options.colorCount = 0) => colors = <<>>

\* C15: constructed with an item list and no generateColors flag, the pool
\* initialize() builds is the supplied items: same count, same ids, missing
\* statistics set to the initial rating and zero counts.
C15_SuppliedItemsAdopted ==
    (/\ lastOp.op = "pool"
     /\ options.hasItems
     /\ options.generateColors = "undefined") =>
        /\ Len(colors) = Len(options.items)
        /\ \A i \in DOMAIN colors :
              /\ colors[i].id = options.items[i].id
              /\ colors[i].eloRating = OrElse(options.items[i].eloRating, InitialRating * Unit)
              /\ colors[i].comparisons = options.items[i].comparisons
              /\ colors[i].wins = options.items[i].wins
              /\ colors[i].losses = options.items[i].losses

\* C16: after restoreState() of a snapshot whose sessionComparisons is at or
\* above maxComparisons the session is complete and has no batch, whatever
\* the snapshot says, and neither pick() nor pass() changes anything.
C16_RestoredAtCapIsComplete ==
    (/\ lastOp.op = "restoreState"
     /\ ~Unconstructed(State)
     /\ analytics.sessionComparisons >= maxComparisons) =>
        /\ Complete
        /\ \A P \in PickLists : pick(State, P) = {State}
        /\ pass(State) = {State}

\* a snapshot at exactly the cap of the session was restored
C16_Witness ==
    /\ lastOp.op = "restoreState"
    /\ ~Unconstructed(State)
    /\ analytics.sessionComparisons = maxComparisons
    /\ Complete

\* the pool restoreState() overlays a snapshot on: generated anew, or the
\* supplied items as they are
PoolToRestore(seed) ==
    IF options.generateColors # "false"
    THEN generatePerceptuallyDistinctColors(OrElse(options.colorCount, DefaultColorCount), seed)
    ELSE options.items

\* the statistics of an item
Statistics(c) ==
    [eloRating |-> c.eloRating, comparisons |-> c.comparisons,
     wins |-> c.wins, losses |-> c.losses]

\* the last entry of saved with the id, as a set (empty when there is none)
SavedFor(saved, id) ==
    LET at == {k \in DOMAIN saved : saved[k].id = id}
    IN  {saved[k] : k \in {k \in at : \A j \in at : j <= k}}

\* C17: restoreState() keeps the pool, writes the saved statistics on the
\* items whose id the snapshot has, leaves the other items as they are, and
\* restores evaluating, favorites and eliminated without the ids that are
\* not in the pool.
C17_OverlayById ==
    ~Unconstructed(State) =>
        \A state \in SnapshotSet : \A seed \in HueSeeds :
            LET pool == PoolToRestore(seed)
                r    == restoreState(State, state, seed)
                InPool(ids) == SelectSeq(ids, LAMBDA id : \E i \in DOMAIN pool : pool[i].id = id)
                Ids(list) == [k \in DOMAIN list |-> r.colors[list[k]].id]
            IN  /\ Len(r.colors) = Len(pool)
                /\ \A i \in DOMAIN pool :
                      /\ r.colors[i].id = pool[i].id
                      /\ SavedFor(state.colors, pool[i].id) = {}
                            => Statistics(r.colors[i]) = Statistics(pool[i])
                      /\ \A e \in SavedFor(state.colors, pool[i].id) :
                            Statistics(r.colors[i]) = Statistics(e)
                /\ Range(r.favorites) \cup Range(r.eliminated) \subseteq DOMAIN r.colors
                /\ Ids(r.favorites) = InPool(state.favorites)
                /\ Ids(r.eliminated) = InPool(state.eliminated)
                /\ r.evaluating # NULL =>
                      /\ Range(r.evaluating) \subseteq DOMAIN r.colors
                      /\ Ids(r.evaluating) = InPool(state.evaluating)

\* a snapshot with statistics and a batch entry for an id that no item has
\* was restored: two items carry the saved statistics, the third is as new
C17_Witness ==
    /\ lastOp.op = "restoreState"
    /\ Len(colors) = 3
    /\ evaluating = <<1, 2>>
    /\ colors[1].eloRating = 1532 * Unit /\ colors[1].wins = 1
    /\ colors[2].eloRating = 1468 * Unit /\ colors[2].losses = 1
    /\ Statistics(colors[3]) = Statistics(NewItem(2, 0))

\* C18: a session constructed with neither an item list nor the generate
\* flag never presents a batch and never has a rating: its pool stays empty,
\* it is never Active, and initialize, pick and pass leave it without a
\* batch, a pool or a completed session.
C18_SourcelessNeverStarts ==
    (~options.hasItems /\ options.generateColors # "true") =>
        /\ ~Active
        /\ colors = <<>> /\ evaluating = NULL /\ ~sessionComplete
        /\ started = "new"
        /\ \A P \in PickLists : pick(State, P) = {State}
        /\ pass(State) = {State}
        /\ \A seed \in HueSeeds : \A batch \in {Undefined, SettingsOf(2)} :
              \A st \in initialize(State, batch, seed) :
                  st.colors = <<>> /\ st.evaluating = NULL /\ ~st.sessionComplete

\* initialize() was called on a session constructed without a source
C18_Witness ==
    /\ ~options.hasItems /\ options.generateColors # "true"
    /\ lastOp.op = "initialize"
    /\ colors = <<>> /\ evaluating = NULL

-----------------------------------------------------------------------------
(* getTopColors() on a session that was entered once and then decided on *)

\* getTopColors(n): no field is assigned; the call and its result are recorded
GetTopColors ==
    /\ ~Unconstructed(State)
    /\ \E n \in 0..MaxTop :
          /\ Becomes(State)
          /\ lastOp' = [op |-> "getTopColors", arg |-> <<n>>,
                        top |-> getTopColors(State, n)]
    /\ UNCHANGED <<started, decisions, passed, taken>>
    /\ UNCHANGED pageVars

EnterTop ==
    /\ started = "new"
    /\ \/ Initialize
       \/ RestoreState

NextTop == EnterTop \/ Pick \/ Pass \/ GetTopColors

SpecTop == Init /\ [][NextTop]_vars

\* the list is a ranking of the whole pool cut to n items: distinct pool
\* items, no rating below a later one, and no item left out that is rated
\* above an item of the list
TopOfPool(top, n) ==
    /\ Len(top) = Min(n, Len(colors))
    /\ Range(top) \subseteq DOMAIN colors
    /\ Distinct(top)
    /\ \A i, j \in DOMAIN top : i < j => colors[top[i]].eloRating >= colors[top[j]].eloRating
    /\ \A c \in DOMAIN colors \ Range(top) : \A k \in DOMAIN top :
          colors[c].eloRating <= colors[top[k]].eloRating

\* C19: getTopColors(n) returns min(n, pool size) items of the whole pool,
\* eliminated items and favorites included, in non-increasing rating order;
\* the call changes no field of the session, and a second call with the same
\* n returns the same list.
C19_TopColors ==
    /\ [](lastOp.op = "getTopColors" => TopOfPool(lastOp.top, lastOp.arg[1]))
    /\ [][lastOp'.op = "getTopColors" =>
            /\ State' = State
            /\ (lastOp.op = "getTopColors" /\ lastOp.arg = lastOp'.arg)
                  => lastOp'.top = lastOp.top]_vars

\* a list of fewer items than the pool has was returned, with an eliminated
\* item or a favorite in it, from a pool whose ratings differ
C19_Witness ==
    /\ lastOp.op = "getTopColors"
    /\ lastOp.arg[1] < Len(colors) /\ lastOp.arg[1] > 0
    /\ \E k \in DOMAIN lastOp.top : lastOp.top[k] \in Range(eliminated) \cup Range(favorites)
    /\ \E i, j \in DOMAIN colors : colors[i].eloRating > colors[j].eloRating

\* the options the session was constructed with: those of OptionSet that
\* differ from options at most in what was written on the supplied items
ConstructedWith == {o \in OptionSet : [o EXCEPT !.items = options.items] = options}

\* C20: after reset() the session is as after initialize() on a fresh
\* session: no eliminated items or favorites, sessionComparisons 0, not
\* complete, a batch selected, and every item with the statistics it had
\* after the first initialize().
C20_ResetRestoresFirstStatistics ==
    lastOp.op = "reset" =>
        /\ eliminated = <<>> /\ favorites = <<>>
        /\ analytics.sessionComparisons = 0
        /\ ~sessionComplete /\ evaluating # NULL
        /\ \A o \in ConstructedWith : \A seed \in HueSeeds :
              LET first == InitialPool(Constructed(o), seed)
              IN  /\ Len(colors) = Len(first)
                  /\ \A i \in DOMAIN first :
                        /\ colors[i].id = first[i].id
                        /\ Statistics(colors[i]) = Statistics(first[i])

-----------------------------------------------------------------------------
(* Snapshots the caller keeps while the session goes on *)

\* getState(): no field is assigned; the caller keeps the object returned
GetState ==
    /\ ~Unconstructed(State)
    /\ Becomes(State)
    /\ taken' = Handed(getState(State), FALSE)
    /\ passed' = passed
    /\ Called("getState", <<>>)
    /\ UNCHANGED <<started, decisions>>
    /\ UNCHANGED pageVars

\* restoreState(state), the caller keeping the object state
RestoreKept ==
    \E state \in SnapshotSet, seed \in HueSeeds :
        /\ Becomes(restoreState(State, state, seed))
        /\ passed' = Seen(Handed(state, SharesAnalytics(State, state)),
                          restoreState(State, state, seed))
        /\ taken' = Seen(Unbound(taken, State, state), restoreState(State, state, seed))
        /\ Called("restoreState", <<>>)
        /\ started' = Entered("restoreState")
        /\ UNCHANGED decisions
        /\ UNCHANGED pageVars

EnterSnap ==
    /\ started = "new"
    /\ \/ Initialize
       \/ RestoreKept

NextSnap == EnterSnap \/ GetState \/ Pick \/ Pass

SpecSnap == Init /\ [][NextSnap]_vars

\* C21: getState() changes no field of the session, and neither a snapshot
\* that getState() returned nor a snapshot that was handed to restoreState()
\* is changed by a later pick() or pass().
C21_SnapshotsIsolated ==
    [][/\ lastOp'.op = "getState" => State' = State
       /\ lastOp'.op \in {"pick", "pass"} => (passed' = passed /\ taken' = taken)]_vars

\* the items of the batch that pick(picked) takes as winners, and the others
Winners(picked) == {c \in Range(evaluating) : colors[c].id \in Range(picked)}
Losers(picked) == Range(evaluating) \ Winners(picked)

\* C22: a pick that has at least one picked and at least one unpicked item
\* of the batch leaves every picked item with a higher rating and every
\* unpicked item of the batch with a lower rating than before.
C22_PickedUpUnpickedDown ==
    [][(/\ Decided("pick")
        /\ Winners(lastOp'.arg) # {}
        /\ Losers(lastOp'.arg) # {}) =>
            /\ \A c \in Winners(lastOp'.arg) : colors'[c].eloRating > colors[c].eloRating
            /\ \A c \in Losers(lastOp'.arg) : colors'[c].eloRating < colors[c].eloRating]_vars

\* C23: items shown in one batch are left out of the next one: when the
\* selector is called again on the same available items, more than two
\* batches of them, the batch it returns has no item of the batch before.
C23_RecentBatchExcluded ==
    [][(/\ lastOp.op = "selectDiverseBatch"
        /\ lastOp'.op = "selectDiverseBatch"
        /\ lastOp'.arg = lastOp.arg
        /\ lastOp'.size = lastOp.size
        /\ lastOp.size > 0
        /\ Len(lastOp.arg) > 2 * lastOp.size) =>
            Range(evaluating') \cap Range(evaluating) = {}]_vars

-----------------------------------------------------------------------------
(* The undo and redo buttons of the picker's page (PickerUI) *)

\* PickerUI.undo(): announces "Undo not yet implemented"; the call it was
\* asked to take back is kept in lastOp
Undo ==
    /\ lastOp.op \in {"pick", "pass"}
    /\ Becomes(State)
    /\ Held(State)
    /\ lastOp' = [op |-> "undo", arg |-> <<>>, undone |-> lastOp]
    /\ UNCHANGED <<started, decisions>>
    /\ UNCHANGED pageVars

\* PickerUI.redo(): announces "Redo not yet implemented"
Redo ==
    /\ lastOp.op = "undo"
    /\ Becomes(State)
    /\ Held(State)
    /\ lastOp' = [op |-> "redo", arg |-> <<>>, redone |-> lastOp.undone]
    /\ UNCHANGED <<started, decisions>>
    /\ UNCHANGED pageVars

NextUndo == EnterTop \/ Pick \/ Pass \/ Undo \/ Redo

SpecUndo == Init /\ [][NextUndo]_vars

\* the states the call (a pick or a pass) leads to from st
Applied(call, st) == IF call.op = "pick" THEN pick(st, call.arg) ELSE pass(st)

\* C24: undo after a pick or pass puts the session back in the state before
\* that decision (ratings, counters, lists and batch: a state from which the
\* decision gives the state undo started in), and redo after the undo applies
\* the decision again.
C24_UndoRedo ==
    [][/\ lastOp'.op = "undo" => State \in Applied(lastOp, State')
       /\ lastOp'.op = "redo" => State' \in Applied(lastOp.undone, State)]_vars

\* the step ran nextBatch() past its two early returns: called on its own or
\* at the end of initialize(), reset(), pick() or pass()
RanNextBatch ==
    /\ \/ lastOp'.op \in {"nextBatch", "initialize", "reset"}
       \/ Decided("pick")
       \/ Decided("pass")
    /\ ~sessionComplete'

\* the eliminated list the step starts from: initialize() empties it
EliminatedBefore == IF lastOp'.op \in {"initialize", "reset"} THEN <<>> ELSE eliminated

\* the active items when the step reaches the elimination rule, in pool order
ActiveAtRule ==
    SelectSeq(Positions(colors'),
              LAMBDA c : c \notin Range(EliminatedBefore) /\ c \notin Range(favorites'))

\* T: the rating at index floor(0.75 n) of the n active items in descending
\* rating order, 1500 without such an item
PercentileRating ==
    LET sorted == SortByRating(colors', ActiveAtRule)
        index  == (3 * Len(sorted)) \div 4
    IN  IF index < Len(sorted) THEN colors'[sorted[index + 1]].eloRating
        ELSE ThresholdFallback * Unit

\* the active items the rule eliminates, all measured against the one T
DueForElimination ==
    SelectSeq(ActiveAtRule, LAMBDA c :
        /\ colors'[c].comparisons >= ElimMinComparisons
        /\ colors'[c].eloRating < PercentileRating - ElimMargin * Unit)

\* C25: outside restoreState(), which installs the list of the snapshot,
\* eliminated gains items only in a step that runs nextBatch() with
\* sessionComparisons >= 10, and it gains exactly the active items with
\* comparisons >= 8 and rating < T - 200, T being the rating at index
\* floor(0.75 n) of the n active items in descending rating order, taken
\* once before the step eliminates anything.
C25_EliminationRule ==
    [][lastOp'.op # "restoreState" =>
          eliminated' =
              IF RanNextBatch /\ analytics'.sessionComparisons >= ElimMinRounds
              THEN EliminatedBefore \o DueForElimination
              ELSE EliminatedBefore]_vars

\* a pick or pass after the tenth round has left an eliminated item, a new
\* batch and at least two items that are not eliminated
C25_Witness ==
    /\ lastOp.op \in {"pick", "pass"}
    /\ evaluating # NULL
    /\ analytics.sessionComparisons > ElimMinRounds
    /\ eliminated # <<>>
    /\ Len(eliminated) < Len(colors) - 1

\* C26: across pick(), pass() and nextBatch() every eliminated item stays
\* eliminated, and no batch these calls select holds an eliminated item.
C26_EliminationIrreversible ==
    [][lastOp'.op \in {"pick", "pass", "nextBatch"} =>
          /\ Range(eliminated) \subseteq Range(eliminated')
          /\ (RanNextBatch /\ evaluating' # NULL) =>
                Range(evaluating') \cap Range(eliminated') = {}]_vars

\* an item was eliminated by the end of a decision and nextBatch() has
\* selected a batch again after it
C26_Witness ==
    /\ decisions >= 1
    /\ lastOp.op = "nextBatch"
    /\ eliminated # <<>>
    /\ evaluating # NULL
    /\ Range(evaluating) \cap Range(eliminated) = {}

\* C27: favorites gains an item only in a pick() that ends with
\* sessionComparisons >= 20; pass(), nextBatch(), initialize() and a pick()
\* that ends at a lower count add none (restoreState() and setFavorites()
\* install a list given by the caller).
C27_PromotionOnlyInLatePick ==
    [][(/\ lastOp'.op \notin {"restoreState", "setFavorites"}
        /\ \E c \in Range(favorites') : c \notin Range(favorites)) =>
            /\ Decided("pick")
            /\ analytics'.sessionComparisons >= FavMinRounds]_vars

\* a pick before the twentieth round has left the item far ahead of the
\* others unpromoted
C27_Witness ==
    /\ lastOp.op = "pick"
    /\ analytics.sessionComparisons = ElimMinRounds + 1
    /\ favorites = <<>>
    /\ \E c \in DOMAIN colors :
          /\ colors[c].comparisons >= FavMinComparisons
          /\ \A d \in DOMAIN colors \ {c} :
                colors[c].eloRating > colors[d].eloRating + FavMargin * Unit

\* the items a pick() may promote: active before the promotion and compared
\* at least 10 times after the updates of the pick, in descending rating order
PromotionCandidates ==
    SortByRating(colors',
        SelectSeq(Positions(colors'), LAMBDA c :
            /\ c \notin Range(eliminated) /\ c \notin Range(favorites)
            /\ colors'[c].comparisons >= FavMinComparisons))

\* the rating of the second-highest candidate, 1500 if there is none
SecondHighest ==
    IF Len(PromotionCandidates) >= 2 THEN colors'[PromotionCandidates[2]].eloRating
    ELSE SecondBestFallback * Unit

\* the items the step has added to favorites
Promoted == Range(favorites') \ Range(favorites)

CountsMoved(c, dc, dw, dl) ==
    /\ colors'[c].comparisons = colors[c].comparisons + dc
    /\ colors'[c].wins = colors[c].wins + dw
    /\ colors'[c].losses = colors[c].losses + dl

\* C29: a pick() with w >= 1 winners among the b items of the batch is w * l
\* win/loss updates (l = b - w) and w (w - 1) / 2 draws among the winners:
\* each winner gets comparisons + (b - 1) and wins + l, each loser
\* comparisons + w and losses + w; a pass() is a draw for each of the
\* b (b - 1) / 2 pairs: each item gets comparisons + (b - 1), no win and no
\* loss.  Items outside the batch keep their counts.
C29_PairwiseDecomposition ==
    [][LET b == Len(evaluating)
           W == Winners(lastOp'.arg)
           L == Losers(lastOp'.arg)
           w == Cardinality(W)
           l == Cardinality(L)
       IN  /\ (Decided("pick") /\ w >= 1) =>
                 /\ l = b - w
                 /\ Len(WinLossPairs(SetToSeq(W), SetToSeq(L))) = w * l
                 /\ 2 * Len(DrawPairs(SetToSeq(W))) = w * (w - 1)
                 /\ \A c \in W : CountsMoved(c, b - 1, l, 0)
                 /\ \A c \in L : CountsMoved(c, w, 0, w)
                 /\ \A c \in DOMAIN colors \ Range(evaluating) : CountsMoved(c, 0, 0, 0)
           /\ Decided("pass") =>
                 /\ 2 * Len(DrawPairs(evaluating)) = b * (b - 1)
                 /\ \A c \in Range(evaluating) : CountsMoved(c, b - 1, 0, 0)
                 /\ \A c \in DOMAIN colors \ Range(evaluating) : CountsMoved(c, 0, 0, 0)]_vars

\* two of the three supplied items were picked: each winner has one win and
\* two comparisons more, the loser two losses and two comparisons more
C29_Witness ==
    /\ lastOp = [op |-> "pick", arg |-> <<0, 1>>]
    /\ Len(colors) = 3
    /\ decisions = 1
    /\ colors[1].comparisons = ThreeItems[1].comparisons + 2
    /\ colors[1].wins = ThreeItems[1].wins + 1
    /\ colors[3].comparisons = ThreeItems[3].comparisons + 2
    /\ colors[3].losses = ThreeItems[3].losses + 2

\* C30: an accepted pass() adds one to sessionComparisons, to
\* totalComparisons and to passes, as an accepted pick() adds one to
\* sessionComparisons, totalComparisons and picks.
C30_PassAdvancesCounters ==
    [][/\ Decided("pass") =>
            /\ analytics'.sessionComparisons = analytics.sessionComparisons + 1
            /\ analytics'.totalComparisons = analytics.totalComparisons + 1
            /\ analytics'.passes = analytics.passes + 1
       /\ Decided("pick") =>
            /\ analytics'.sessionComparisons = analytics.sessionComparisons + 1
            /\ analytics'.totalComparisons = analytics.totalComparisons + 1
            /\ analytics'.picks = analytics.picks + 1]_vars

\* C31: every batch that nextBatch() selects is in non-decreasing hue order,
\* also when the active items are no more than the batch size.
C31_BatchSortedByHue ==
    [][(RanNextBatch /\ evaluating' # NULL) =>
          \A i, j \in DOMAIN evaluating' :
              i < j => colors'[evaluating'[i]].h <= colors'[evaluating'[j]].h]_vars

\* the orders the items of the batch s can be in
Orders(s) ==
    {p \in [DOMAIN s -> Range(s)] : \A c \in Range(s) :
        Cardinality({k \in DOMAIN s : p[k] = c}) = Cardinality({k \in DOMAIN s : s[k] = c})}

\* the item statistics the decisions of S leave
StatisticsAfter(S) == {[c \in DOMAIN st.colors |-> Statistics(st.colors[c])] : st \in S}

\* C32: the statistics of the items after a pick() or a pass() are the same
\* whatever the order of the items in the batch is.
C32_OrderIndependent ==
    Active =>
        \A p \in Orders(evaluating) :
            LET reordered == [State EXCEPT !.evaluating = p]
            IN  /\ StatisticsAfter(pass(reordered)) = StatisticsAfter(pass(State))
                /\ \A P \in PickLists :
                      StatisticsAfter(pick(reordered, P)) = StatisticsAfter(pick(State, P))

\* C33: on a session built from supplied items and reached by initialize(),
\* pick() and pass(), restoreState(getState()) leaves the statistics of
\* every item, favorites, eliminated, the batch in its order, the analytics
\* counters and sessionComplete as they were, and getState() then returns an
\* equal snapshot.
C33_SnapshotRoundTrip ==
    (options.hasItems /\ options.generateColors = "false" /\ started = "initialize") =>
        \A seed \in HueSeeds :
            LET snapshot == getState(State)
                r == restoreState(State, snapshot, seed)
            IN  /\ Len(r.colors) = Len(colors)
                /\ \A c \in DOMAIN colors :
                      /\ r.colors[c].id = colors[c].id
                      /\ Statistics(r.colors[c]) = Statistics(colors[c])
                /\ r.favorites = favorites
                /\ r.eliminated = eliminated
                /\ r.evaluating = evaluating
                /\ r.analytics = analytics
                /\ r.sessionComplete = sessionComplete
                /\ getState(r) = snapshot

\* a session on supplied items has been decided on: its items have moved
\* from the statistics they were supplied with and a batch is presented
C33_Witness ==
    /\ options.hasItems /\ options.generateColors = "false"
    /\ started = "initialize"
    /\ lastOp.op \in {"pick", "pass"}
    /\ decisions >= 1
    /\ evaluating # NULL
    /\ \E c \in DOMAIN colors : colors[c].comparisons > TwoItems[c].comparisons

\* C34: a pick() or a pass() changes the statistics of no item outside the
\* batch it decides on; in a session whose rounds have filled eliminated and
\* favorites (no list installed by restoreState() or setFavorites()), it
\* changes the statistics of no item that is eliminated or a favorite.
C34_OnlyBatchItemsChange ==
    [][lastOp'.op \in {"pick", "pass"} =>
          /\ \A c \in DOMAIN colors :
                (evaluating = NULL \/ c \notin Range(evaluating)) =>
                    Statistics(colors'[c]) = Statistics(colors[c])
          /\ \A c \in Range(eliminated) \cup Range(favorites) :
                Statistics(colors'[c]) = Statistics(colors[c])]_vars

\* an item was promoted by the first decision and took no part in the
\* second: it has the two comparisons of the first round, another item the
\* three of both rounds
C34_Witness ==
    /\ decisions = 2
    /\ lastOp.op \in {"pick", "pass"}
    /\ Len(colors) = 3
    /\ Len(favorites) = 1
    /\ colors[favorites[1]].comparisons = ThreeItems[favorites[1]].comparisons + 2
    /\ \E c \in DOMAIN colors : colors[c].comparisons = ThreeItems[c].comparisons + 3

\* C35: a nextBatch() that gets to the elimination rule with n >= 1 active
\* items leaves the floor(0.75 n) + 1 highest-rated of them uneliminated, and
\* ends with a batch of at least one item.
C35_TopItemsSurvive ==
    [][(RanNextBatch /\ ActiveAtRule # <<>>) =>
          LET sorted == SortByRating(colors', ActiveAtRule)
              n == Len(sorted)
          IN  /\ \A i \in 1..(((3 * n) \div 4) + 1) : sorted[i] \notin Range(eliminated')
              /\ evaluating' # NULL
              /\ Len(evaluating') >= 1]_vars

\* the round after the tenth has eliminated one of the twelve items and
\* presents ten of the other eleven
C35_Witness ==
    /\ lastOp.op \in {"pick", "pass"}
    /\ decisions = 1
    /\ Len(colors) = 12
    /\ Len(eliminated) = 1
    /\ evaluating # NULL
    /\ Len(evaluating) = BatchCap

-----------------------------------------------------------------------------
(* A whole session from initialize() to its round cap *)

\* the last rounds before the promotion threshold in which the caller is free
\* to pick either item or to pass; the rounds before them pick item 0
FreeRounds == 3

\* caps around the promotion threshold; 0: the option is not given
CapOptionSet == {ItemOptions(TwoItems, cap, Undefined) : cap \in {0, 19, 20, 21}}

InitCap == (\E opts \in CapOptionSet : New(opts)) /\ NoPage

EnterCap == started = "new" /\ Initialize

Scripted == analytics.sessionComparisons < FavMinRounds - FreeRounds

PickCap ==
    /\ started = "initialize"
    /\ \E picked \in (IF Scripted THEN {<<0>>} ELSE {<<0>>, <<1>>}) :
          \E st \in pick(State, picked) :
            /\ Becomes(st)
            /\ Held(st)
            /\ Called("pick", picked)
            /\ UNCHANGED <<started, decisions>>
            /\ UNCHANGED pageVars

PassCap ==
    /\ started = "initialize"
    /\ ~Scripted
    /\ \E st \in pass(State) :
            /\ Becomes(st)
            /\ Held(st)
            /\ Called("pass", <<>>)
            /\ UNCHANGED <<started, decisions>>
            /\ UNCHANGED pageVars

NextCap == EnterCap \/ PickCap \/ PassCap

SpecCap == InitCap /\ [][NextCap]_vars

\* C36: in a session with a round cap of 20 or less, entered by initialize()
\* and continued by pick() and pass(), favorites is empty while the session is
\* Active; favorites changes only in a pick() that brings the round count to a
\* cap of exactly 20 and completes the session.
C36_NoFavoriteWhileActive ==
    /\ []((started = "initialize" /\ maxComparisons <= FavMinRounds /\ Active)
            => favorites = <<>>)
    /\ [][(started = "initialize" /\ maxComparisons <= FavMinRounds
             /\ favorites' # favorites)
            => /\ lastOp'.op = "pick"
               /\ maxComparisons = FavMinRounds
               /\ analytics'.sessionComparisons = maxComparisons
               /\ Complete']_vars

\* the twentieth round of a session capped at 20 was a pick that promoted an
\* item and completed the session
C36_Witness ==
    /\ started = "initialize"
    /\ maxComparisons = FavMinRounds
    /\ lastOp.op = "pick"
    /\ analytics.sessionComparisons = FavMinRounds
    /\ Len(favorites) = 1
    /\ Complete

-----------------------------------------------------------------------------
(* One session object used by initialize(), reset(), pick() and pass() only *)

NextCount == Initialize \/ Reset \/ Pick \/ Pass

SpecCount == Init /\ [][NextCount]_vars

\* C37: on a constructed session object used by initialize(), reset(), pick()
\* and pass() only, sessionComparisons = picks + passes and decisionTimes has
\* as many entries as sessionComparisons counts rounds.
C37_CountersAgree ==
    ~Unconstructed(State) =>
        /\ analytics.sessionComparisons = analytics.picks + analytics.passes
        /\ analytics.decisionTimes = analytics.sessionComparisons

-----------------------------------------------------------------------------
(* The consistency tracker *)

\* user ids are 1..MaxUsers, session ids 1..MaxStored
MaxUsers == 4
MaxStored == 3

\* options.maxSessions || 10
DefaultMaxSessions == 10

\* the tracker object and the storage it works on
Tracker == [userId |-> userId, sessions |-> sessions, storage |-> localStorage]

TrackerIs(t) ==
    /\ userId = t.userId
    /\ sessions = t.sessions
    /\ localStorage = t.storage

TrackerBecomes(t) ==
    /\ userId' = t.userId
    /\ sessions' = t.sessions
    /\ localStorage' = t.storage

\* a recorded session: its id and the user it belongs to (NoUser: a legacy
\* session without userId)
StoredSession(id, user) == [id |-> id, userId |-> user]

\* 'user_' + Date.now() + '_' + random: an id nobody has
FreshUsers(t) ==
    (1..MaxUsers) \ ({t.userId, t.storage.userId}
                     \cup {x.userId : x \in Range(t.sessions) \cup Range(t.storage.sessions)})

\* 'session_' + Date.now() + '_' + random
FreshSessions(t) ==
    (1..MaxStored) \ {x.id : x \in Range(t.sessions) \cup Range(t.storage.sessions)}

\* the stored id, or a new one that is stored when setItem() does not throw
initializeUserId(storage, newId) ==
    IF storage.userId # NoUser THEN [userId |-> storage.userId, storage |-> storage]
    ELSE IF storage.full THEN [userId |-> newId, storage |-> storage]
    ELSE [userId |-> newId, storage |-> [storage EXCEPT !.userId = newId]]

\* sessions without userId are given to the current user and written back;
\* [] when the write throws
loadSessions(t) ==
    LET stored == t.storage.sessions
        migrated == [i \in DOMAIN stored |->
                       IF stored[i].userId = NoUser
                       THEN [stored[i] EXCEPT !.userId = t.userId] ELSE stored[i]]
    IN  IF migrated = stored THEN [t EXCEPT !.sessions = stored]
        ELSE IF t.storage.full THEN [t EXCEPT !.sessions = <<>>]
        ELSE [t EXCEPT !.sessions = migrated, !.storage.sessions = migrated]

\* new ConsistencyTracker(options)
ConsistencyTracker(storage, newId) ==
    LET id == initializeUserId(storage, newId)
    IN  loadSessions([userId |-> id.userId, sessions |-> <<>>, storage |-> id.storage])

saveSessions(t) ==
    IF t.storage.full THEN t ELSE [t EXCEPT !.storage.sessions = t.sessions]

recordSession(t, id) ==
    LET added == <<StoredSession(id, t.userId)>> \o t.sessions
    IN  saveSessions([t EXCEPT !.sessions =
                         IF Len(added) > DefaultMaxSessions
                         THEN SubSeq(added, 1, DefaultMaxSessions) ELSE added])

deleteSession(t, id) ==
    saveSessions([t EXCEPT !.sessions = SelectSeq(@, LAMBDA x : x.id # id)])

clearCurrentUserSessions(t) ==
    saveSessions([t EXCEPT !.sessions =
                     SelectSeq(@, LAMBDA x : x.userId # NoUser /\ x.userId # t.userId)])

clearAllSessions(t) == saveSessions([t EXCEPT !.sessions = <<>>])

\* setItem() of the new id throws: the catch block returns, nothing is changed
resetUserId(t, newId) ==
    IF t.storage.full THEN t
    ELSE saveSessions([t EXCEPT !.storage.userId = newId, !.userId = newId,
                                !.sessions = <<>>])

\* the session lists found in storage when the page loads
StoredLists ==
    { <<>>,
      <<StoredSession(1, 1)>>,
      <<StoredSession(1, 1), StoredSession(2, 2)>>,
      <<StoredSession(1, 2), StoredSession(2, NoUser)>> }

StorageSet ==
    {Storage(id, list, full) : id \in {NoUser, 1}, list \in StoredLists,
                               full \in BOOLEAN}

\* the fields of the picker session, without the history of calls
pickerVars == <<options, maxComparisons, analytics, colors, eliminated, favorites,
                evaluating, settings, sessionComplete, itemsAliased,
                started, decisions, passed, taken>>

\* the tracker was found by the first poll after it was set, the click
\* handlers are bound
IdentityShown ==
    /\ now = EnhancedDelay + PollInterval
    /\ windowTracker = TRUE
    /\ enhanced = "done"
    /\ enhancedDue = EnhancedDelay
    /\ polling = FALSE
    /\ nextPoll = EnhancedDelay + PollInterval
    /\ timeoutPending = TRUE
    /\ identityUI = 1
    /\ errorText = FALSE

\* the page is loaded: window.pickerState and the tracker are constructed
InitTracker ==
    /\ New(GenOptions(3, 3, SettingsOf(2)))
    /\ \E storage \in StorageSet :
         \E newId \in FreshUsers([userId |-> NoUser, sessions |-> <<>>,
                                  storage |-> storage]) :
            TrackerIs(ConsistencyTracker(storage, newId))
    /\ consistency = NoConsistency
    /\ IdentityShown

RecordSession ==
    /\ \E id \in FreshSessions(Tracker) : TrackerBecomes(recordSession(Tracker, id))
    /\ Called("recordSession", <<>>)
    /\ UNCHANGED <<pickerVars, consistency, pollVars>>

DeleteSession ==
    /\ \E x \in Range(sessions) :
          /\ TrackerBecomes(deleteSession(Tracker, x.id))
          /\ Called("deleteSession", <<x.id>>)
    /\ UNCHANGED <<pickerVars, consistency, pollVars>>

ClearAllSessions ==
    /\ TrackerBecomes(clearAllSessions(Tracker))
    /\ Called("clearAllSessions", <<>>)
    /\ UNCHANGED <<pickerVars, consistency, pollVars>>

\* the click handler of #reset-user-data, confirmed
ResetUserData ==
    /\ \E newId \in FreshUsers(clearCurrentUserSessions(Tracker)) :
          TrackerBecomes(resetUserId(clearCurrentUserSessions(Tracker), newId))
    /\ \E seed \in HueSeeds : \E st \in reset(State, seed) :
          /\ Becomes(st)
          /\ Held(st)
    /\ Called("resetUserData", <<>>)
    /\ started' = "initialize"
    /\ UNCHANGED <<decisions, consistency, pollVars>>

NextTracker == RecordSession \/ DeleteSession \/ ClearAllSessions \/ ResetUserData

SpecTracker == InitTracker /\ [][NextTracker]_vars

\* the sessions of other users that are in the tracker's list and in storage
OtherUsersSessions ==
    {x \in Range(sessions) \cap Range(localStorage.sessions) :
        x.userId # NoUser /\ x.userId # userId}

\* C38: the reset of the user identity (clearCurrentUserSessions() followed by
\* resetUserId()) leaves every session of another user in the tracker's
\* session list and in storage.
C38_OtherUsersKept ==
    [][lastOp'.op = "resetUserData" =>
          \A x \in OtherUsersSessions :
              x \in Range(sessions') /\ x \in Range(localStorage'.sessions)]_vars

-----------------------------------------------------------------------------
(* The consistency of two sessions *)

\* colour ids are 1..MaxColorId, a top list has up to MaxRank of them
MaxColorId == 3
MaxRank == 3

\* colors.indexOf(id): the index from 0 of the first occurrence, -1 for none
IndexOf(list, id) ==
    LET at == {i \in DOMAIN list : list[i] = id}
    IN  IF at = {} THEN -1 ELSE (CHOOSE i \in at : \A j \in at : i <= j) - 1

RECURSIVE SumSquaredDiff(_, _, _)
SumSquaredDiff(colors1, colors2, overlap) ==
    IF overlap = <<>> THEN 0
    ELSE LET diff == IndexOf(colors1, Head(overlap)) - IndexOf(colors2, Head(overlap))
         IN  diff * diff + SumSquaredDiff(colors1, colors2, Tail(overlap))

\* Math.max(-1, Math.min(1, x))
Clamp(x) == Number(Max(-x.den, Min(x.den, x.num)), x.den)

\* 1 - (6 * sumSquaredDiff) / (n * (n * n - 1)); the division by 0 of n = 1
\* gives NaN for 0 / 0, which Math.min and Math.max hand on, and Infinity
\* otherwise, which ends at -1
calculateRankCorrelation(colors1, colors2, overlap) ==
    IF Len(overlap) = 0 THEN Number(0, 1)
    ELSE
    LET sumSquaredDiff == SumSquaredDiff(colors1, colors2, overlap)
        n == Len(overlap)
        divisor == n * (n * n - 1)
    IN  IF divisor = 0
        THEN IF sumSquaredDiff = 0 THEN NaN ELSE Number(-1, 1)
        ELSE Clamp(Number(divisor - 6 * sumSquaredDiff, divisor))

\* the result of calculateConsistency() for the two top lists
calculateConsistency(colors1, colors2) ==
    LET overlap == SelectSeq(colors1, LAMBDA id : Includes(colors2, id))
    IN  [session1Colors |-> colors1, session2Colors |-> colors2,
         matchedColors |-> overlap, overlapCount |-> Len(overlap),
         rankCorrelation |-> calculateRankCorrelation(colors1, colors2, overlap)]

\* the top lists of a session
TopLists == UNION {[1..len -> 1..MaxColorId] : len \in 0..MaxRank}

InitRank == New(GenOptions(3, 3, SettingsOf(2))) /\ NoPage

CalculateConsistency ==
    /\ \E colors1, colors2 \in TopLists :
          consistency' = calculateConsistency(colors1, colors2)
    /\ Called("calculateConsistency", <<>>)
    /\ UNCHANGED <<pickerVars, userId, sessions, localStorage, pollVars>>

SpecRank == InitRank /\ [][CalculateConsistency]_vars

\* C39: the rank correlation of every pair of top lists is a number from -1
\* to 1, whatever the size of the overlap.
C39_CorrelationInRange ==
    lastOp.op = "calculateConsistency" =>
        /\ ~consistency.rankCorrelation.nan
        /\ -consistency.rankCorrelation.den <= consistency.rankCorrelation.num
        /\ consistency.rankCorrelation.num <= consistency.rankCorrelation.den

-----------------------------------------------------------------------------
(* The start of the user-identity UI *)

\* the time the page is followed for, in ms
MaxClock == 5200

\* how long after the ready handler of the user-identity UI the ready handler
\* of the enhanced features runs, in ms
ReadyOffsets == {0, 3900, 4000}

\* $(document).ready of both scripts has run: the poll and the timeout of the
\* user-identity UI are set, initializeEnhancedFeatures() is to come
InitPoll ==
    /\ New(GenOptions(3, 3, SettingsOf(2)))
    /\ userId = NoUser
    /\ sessions = <<>>
    /\ localStorage = Storage(NoUser, <<>>, FALSE)
    /\ consistency = NoConsistency
    /\ now = 0
    /\ windowTracker = FALSE
    /\ enhanced = "pending"
    /\ enhancedDue \in {offset + EnhancedDelay : offset \in ReadyOffsets}
    /\ polling = TRUE
    /\ nextPoll = PollInterval
    /\ timeoutPending = TRUE
    /\ identityUI = 0
    /\ errorText = FALSE

PageIdle == UNCHANGED <<pickerVars, userId, sessions, localStorage, consistency>>

\* the times the timers that are set are due
DueTimes ==
    (IF polling THEN {nextPoll} ELSE {})
        \cup (IF timeoutPending THEN {IdentityTimeout} ELSE {})
        \cup (IF enhanced = "pending" THEN {enhancedDue} ELSE {})

\* the callback of a timer runs when it is due and no timer is due earlier
MayRun(due) == now >= due /\ \A other \in DueTimes : due <= other

\* time passes, the thread being idle or busy: a callback that is due may
\* still be waiting
Advance ==
    /\ now < MaxClock
    /\ now' = now + PollInterval
    /\ UNCHANGED <<windowTracker, enhanced, enhancedDue, polling, nextPoll,
                   timeoutPending, identityUI, errorText, lastOp>>
    /\ PageIdle

\* initializeEnhancedFeatures(): returns when the picker is not there,
\* otherwise sets window.consistencyTracker
InitializeEnhancedFeatures ==
    /\ enhanced = "pending"
    /\ MayRun(enhancedDue)
    /\ \/ enhanced' = "failed" /\ UNCHANGED <<windowTracker, userId>>
       \/ /\ enhanced' = "done"
          /\ windowTracker' = TRUE
          /\ \E newId \in FreshUsers(Tracker) :
                userId' = ConsistencyTracker(localStorage, newId).userId
    /\ Called("initializeEnhancedFeatures", <<>>)
    /\ UNCHANGED <<now, enhancedDue, polling, nextPoll, timeoutPending, identityUI,
                   errorText>>
    /\ UNCHANGED <<pickerVars, sessions, localStorage, consistency>>

\* the callback of checkInterval; the timer is set again for 100 ms later
CheckInterval ==
    /\ polling
    /\ MayRun(nextPoll)
    /\ nextPoll' = now + PollInterval
    /\ IF windowTracker
       THEN polling' = FALSE /\ identityUI' = identityUI + 1
       ELSE UNCHANGED <<polling, identityUI>>
    /\ Called("checkInterval", <<>>)
    /\ UNCHANGED <<now, windowTracker, enhanced, enhancedDue, timeoutPending,
                   errorText>>
    /\ PageIdle

\* the callback of the 5 s timeout
Timeout ==
    /\ timeoutPending
    /\ MayRun(IdentityTimeout)
    /\ timeoutPending' = FALSE
    /\ polling' = FALSE
    /\ errorText' = IF windowTracker THEN errorText ELSE TRUE
    /\ Called("timeout", <<>>)
    /\ UNCHANGED <<now, windowTracker, enhanced, enhancedDue, nextPoll, identityUI>>
    /\ PageIdle

NextPoll == Advance \/ InitializeEnhancedFeatures \/ CheckInterval \/ Timeout

SpecPoll == InitPoll /\ [][NextPoll]_vars

\* C40: once the polling has stopped, either initializeUserIdentityUI() has
\* run exactly once or 'Error: Not initialized' is shown, not both; the
\* polling is never stopped with the tracker set and the UI not initialized.
C40_InitializedOrError ==
    /\ identityUI <= 1
    /\ ~polling => ((identityUI = 1) # errorText)
    /\ ~(~polling /\ windowTracker /\ identityUI = 0)

====
